---- MODULE Spec2Model ----
(***************************************************************************)
(* Model of binary_segmentation.py: the three connected-component labelers *)
(* (region_growing_alg, region_grow_bfs, seq_label_alg) and the            *)
(* Zhang-Suen thinning routine (skeletonization).                          *)
(*                                                                         *)
(* A raster is a function from 0-based row indices to functions from       *)
(* 0-based column indices to integers, so img[i][j] is numpy's img[i, j].   *)
(* A cell is the pair <<i, j>>.  Python lists and tuples are sequences; since    *)
(* sequences are 1-based, neighbors[k] of the source is neighbors[k+1].    *)
(***************************************************************************)
EXTENDS Integers, Sequences, FiniteSets, TLC

\* The labelers are explored on every raster of at most MaxLabelCells cells,
\* skeletonization on every raster of at most MaxSkelCells cells.
MaxLabelCells == 10
MaxSkelCells == 12

VARIABLES
    \* ---- labelers -------------------------------------------------------
    image,          \* the binary raster handed to the three labelers
    n, m,           \* image.shape
    lpc,            \* which labeler / which pass is about to run
    dfs_out,        \* (labels, labeled) returned by region_growing_alg
    bfs_out,        \* (labels, labeled) returned by region_grow_bfs
    labeled,        \* seq_label_alg: the label map being filled
    equiv_table,    \* seq_label_alg: label -> parent label
    label,          \* seq_label_alg: next fresh label
    labels,         \* seq_label_alg: the label set of the second pass
    pos,            \* seq_label_alg: row-major index of the cell the loop is at
    merged,         \* history: the argument pairs of every union call so far
    provisional,    \* history: the label map as the first pass left it
    \* ---- skeletonization ------------------------------------------------
    raster,         \* the argument of the current skeletonization call
    H, W,           \* its shape
    padded,         \* the padded working copy (the rebound name `image`)
    changed_first,  \* list built by the first sub-pass
    changed_second, \* list built by the second sub-pass
    spc,            \* position in skeletonization
    iter,           \* number of loop iterations entered in this call
    call,           \* 1: skeletonization(R); 2: skeletonization of that result
    out             \* the value returned by the current call

labelVars == <<image, n, m, lpc, dfs_out, bfs_out, labeled, equiv_table, label,
               labels, pos, merged, provisional>>
skelVars  == <<raster, H, W, padded, changed_first, changed_second, spc,
               iter, call, out>>
vars == <<labelVars, skelVars>>

----------------------------------------------------------------------------
(* Rasters *)

Cells(h, w) == (0 .. h - 1) \X (0 .. w - 1)

BinaryRasters(h, w) == [0 .. h - 1 -> [0 .. w - 1 -> {0, 1}]]

\* The shapes (height, width) of the rasters of at most maxCells cells.
Shapes(maxCells) ==
    {sh \in (1 .. maxCells) \X (1 .. maxCells) : sh[1] * sh[2] <= maxCells}

zeros_like(h, w) == [i \in 0 .. h - 1 |-> [j \in 0 .. w - 1 |-> 0]]

\* The cell a row-major scan `for i in range(n): for j in range(m)` is at
\* after k cells.
CellAt(k, w) == <<k \div w, k % w>>

\* img[c] for a cell c
At(img, c) == img[c[1]][c[2]]

----------------------------------------------------------------------------
(* region_growing_alg *)

\* The neighbour list both flood fills iterate over: down, right, up, left.
neighbors4(i, j) == << <<i + 1, j>>, <<i, j + 1>>, <<i - 1, j>>, <<i, j - 1>> >>

\* Faulty variant: the test forgets `image[x, y] == 1`.
unvisited_any(img, h, w, visited, x, y) ==
    /\ 0 <= x /\ x < h /\ 0 <= y /\ y < w
    /\ <<x, y>> \notin visited

\* The condition under which a neighbour is entered (dfs) or enqueued (bfs).
unvisited_foreground(img, h, w, visited, x, y) ==
    /\ 0 <= x /\ x < h /\ 0 <= y /\ y < w
    /\ <<x, y>> \notin visited
    /\ img[x][y] = 1

RECURSIVE dfs(_, _, _, _, _, _, _)
RECURSIVE dfs_for(_, _, _, _, _, _, _, _)

\* dfs(i, j, label): st is the pair of captured variables (labeled, visited).
dfs(img, h, w, st, i, j, lab) ==
    LET st1 == [labeled |-> [st.labeled EXCEPT ![i][j] = lab],
                visited |-> st.visited \cup {<<i, j>>}]
    IN  dfs_for(img, h, w, st1, i, j, lab, 1)

\* The for loop of dfs from its k-th neighbour on.
dfs_for(img, h, w, st, i, j, lab, k) ==
    IF k > 4 THEN st
    ELSE LET xy == neighbors4(i, j)[k]
         IN  IF unvisited_foreground(img, h, w, st.visited, xy[1], xy[2])
             THEN dfs_for(img, h, w, dfs(img, h, w, st, xy[1], xy[2], lab),
                          i, j, lab, k + 1)
             ELSE dfs_for(img, h, w, st, i, j, lab, k + 1)

RECURSIVE dfs_scan(_, _, _, _, _)

\* The double loop of region_growing_alg from row-major index k on.
dfs_scan(img, h, w, st, k) ==
    IF k >= h * w THEN st
    ELSE LET c == CellAt(k, w)
         IN  IF c \notin st.visited /\ img[c[1]][c[2]] = 1
             THEN LET d == dfs(img, h, w,
                               [labeled |-> st.labeled, visited |-> st.visited],
                               c[1], c[2], st.label + 1)
                  IN  dfs_scan(img, h, w,
                               [labels  |-> st.labels \cup {st.label + 1},
                                labeled |-> d.labeled,
                                visited |-> d.visited,
                                label   |-> st.label + 1], k + 1)
             ELSE dfs_scan(img, h, w, st, k + 1)

region_growing_alg(img, h, w) ==
    LET r == dfs_scan(img, h, w,
                      [labels |-> {}, labeled |-> zeros_like(h, w),
                       visited |-> {}, label |-> 0], 0)
    IN  [labels |-> r.labels, labeled |-> r.labeled]

----------------------------------------------------------------------------
(* region_grow_bfs *)

RECURSIVE bfs_for(_, _, _, _, _, _, _)

\* The for loop of bfs from the k-th neighbour of (ci, cj) on; st holds
\* labeled, visited and queue.
bfs_for(img, h, w, st, ci, cj, k) ==
    IF k > 4 THEN st
    ELSE LET xy == neighbors4(ci, cj)[k]
         IN  IF unvisited_foreground(img, h, w, st.visited, xy[1], xy[2])
             THEN bfs_for(img, h, w,
                          [st EXCEPT !.visited = @ \cup {xy},
                                     !.queue = Append(@, xy)],
                          ci, cj, k + 1)
             ELSE bfs_for(img, h, w, st, ci, cj, k + 1)

RECURSIVE bfs_while(_, _, _, _, _)

\* while(queue): popleft, label, mark visited, enqueue the neighbours.
bfs_while(img, h, w, st, lab) ==
    IF st.queue = << >> THEN st
    ELSE LET cur == Head(st.queue)
             st1 == [labeled |-> [st.labeled EXCEPT ![cur[1]][cur[2]] = lab],
                     visited |-> st.visited \cup {cur},
                     queue   |-> Tail(st.queue)]
         IN  bfs_while(img, h, w, bfs_for(img, h, w, st1, cur[1], cur[2], 1), lab)

bfs(img, h, w, st, i, j, lab) ==
    bfs_while(img, h, w,
              [labeled |-> st.labeled, visited |-> st.visited,
               queue |-> << <<i, j>> >>], lab)

RECURSIVE bfs_scan(_, _, _, _, _)

\* The double loop of region_grow_bfs from row-major index k on.
bfs_scan(img, h, w, st, k) ==
    IF k >= h * w THEN st
    ELSE LET c == CellAt(k, w)
         IN  IF c \notin st.visited /\ img[c[1]][c[2]] = 1
             THEN LET d == bfs(img, h, w, st, c[1], c[2], st.label + 1)
                  IN  bfs_scan(img, h, w,
                               [labels  |-> st.labels \cup {st.label + 1},
                                labeled |-> d.labeled,
                                visited |-> d.visited,
                                label   |-> st.label + 1], k + 1)
             ELSE bfs_scan(img, h, w, st, k + 1)

region_grow_bfs(img, h, w) ==
    LET r == bfs_scan(img, h, w,
                      [labels |-> {}, labeled |-> zeros_like(h, w),
                       visited |-> {}, label |-> 0], 0)
    IN  [labels |-> r.labels, labeled |-> r.labeled]

----------------------------------------------------------------------------
(* seq_label_alg *)

valid_pos(h, w, i, j) == 0 <= i /\ i < h /\ 0 <= j /\ j < w

RECURSIVE find(_, _)

\* find(a) with path compression; returns the table as find leaves it and
\* the value returned.
find(tbl, a) ==
    IF tbl[a] # a
    THEN LET r == find(tbl, tbl[a])
         IN  [table |-> [r.table EXCEPT ![a] = r.root], root |-> r.root]
    ELSE [table |-> tbl, root |-> tbl[a]]

\* Faulty variant: the larger root becomes the parent.
union_larger_wins(tbl, a, b) ==
    LET fa == find(tbl, a)
        fb == find(fa.table, b)
    IN  IF fa.root = fb.root THEN fb.table
        ELSE IF fa.root > fb.root
             THEN [fb.table EXCEPT ![fb.root] = fa.root]
             ELSE [fb.table EXCEPT ![fa.root] = fb.root]

\* Faulty variant: the equivalence is never recorded.
union_dropped(tbl, a, b) == tbl

\* union(a, b); returns the table.
union(tbl, a, b) ==
    LET fa == find(tbl, a)
        fb == find(fa.table, b)
    IN  IF fa.root = fb.root THEN fb.table
        ELSE IF fa.root < fb.root
             THEN [fb.table EXCEPT ![fb.root] = fa.root]
             ELSE [fb.table EXCEPT ![fa.root] = fb.root]

\* Faulty variant: the diagonal looked at is the up-right one.
posD_up_right(i, j) == <<i - 1, j + 1>>

\* The neighbour positions of the first pass: D up-left, B up, C left.
posD(i, j) == <<i - 1, j - 1>>
posB(i, j) == <<i - 1, j>>
posC(i, j) == <<i, j - 1>>

\* `valid_pos(p) and labeled[p]`
is_labeled(lab, h, w, p) == valid_pos(h, w, p[1], p[2]) /\ lab[p[1]][p[2]] # 0

min(a, b) == IF a <= b THEN a ELSE b

\* Which branch of the if/elif chain the first pass takes at a foreground
\* cell.
branch(lab, h, w, i, j) ==
    IF is_labeled(lab, h, w, posD(i, j)) THEN "D"
    ELSE IF is_labeled(lab, h, w, posB(i, j)) /\ is_labeled(lab, h, w, posC(i, j))
         THEN "BC"
    ELSE IF is_labeled(lab, h, w, posB(i, j)) THEN "B"
    ELSE IF is_labeled(lab, h, w, posC(i, j)) THEN "C"
    ELSE "new"

\* dict insertion equiv_table[l] = l
register(tbl, l) == [x \in DOMAIN tbl \cup {l} |-> IF x = l THEN l ELSE tbl[x]]

----------------------------------------------------------------------------
(* The labelers applied in turn to one raster *)

\* The variables of the part that is not running.
IdleLabel ==
    /\ image = << >>
    /\ n = 0
    /\ m = 0
    /\ lpc = "idle"
    /\ dfs_out = << >>
    /\ bfs_out = << >>
    /\ labeled = << >>
    /\ equiv_table = << >>
    /\ label = 0
    /\ labels = {}
    /\ pos = 0
    /\ merged = {}
    /\ provisional = << >>

IdleSkel ==
    /\ raster = << >>
    /\ H = 0
    /\ W = 0
    /\ padded = << >>
    /\ changed_first = << >>
    /\ changed_second = << >>
    /\ spc = "idle"
    /\ iter = 0
    /\ call = 0
    /\ out = << >>

InitLabel ==
    /\ \E sh \in Shapes(MaxLabelCells) :
          /\ n = sh[1]
          /\ m = sh[2]
          /\ image \in BinaryRasters(sh[1], sh[2])
          /\ dfs_out = [labels |-> {}, labeled |-> zeros_like(sh[1], sh[2])]
          /\ bfs_out = [labels |-> {}, labeled |-> zeros_like(sh[1], sh[2])]
          /\ labeled = zeros_like(sh[1], sh[2])
          /\ provisional = zeros_like(sh[1], sh[2])
    /\ lpc = "dfs"
    /\ equiv_table = [x \in {0} |-> 0]
    /\ label = 1
    /\ labels = {}
    /\ pos = 0
    /\ merged = {}
    /\ IdleSkel

seqVars == <<labeled, equiv_table, label, labels, pos, merged, provisional>>

RegionGrowingAlg ==
    /\ lpc = "dfs"
    /\ dfs_out' = region_growing_alg(image, n, m)
    /\ lpc' = "bfs"
    /\ UNCHANGED <<image, n, m, bfs_out, seqVars, skelVars>>

RegionGrowBfs ==
    /\ lpc = "bfs"
    /\ bfs_out' = region_grow_bfs(image, n, m)
    /\ lpc' = "first"
    /\ UNCHANGED <<image, n, m, dfs_out, seqVars, skelVars>>

\* One iteration of the first double loop of seq_label_alg.
SeqFirstPass ==
    /\ lpc = "first"
    /\ pos < n * m
    /\ LET i == CellAt(pos, m)[1]
           j == CellAt(pos, m)[2]
           b == branch(labeled, n, m, i, j)
       IN  IF image[i][j] # 0
           THEN CASE b = "D" ->
                       /\ labeled' = [labeled EXCEPT ![i][j] = At(labeled, posD(i, j))]
                       /\ UNCHANGED <<equiv_table, label, merged>>
                  [] b = "BC" ->
                       /\ labeled' = [labeled EXCEPT ![i][j] =
                                         min(At(labeled, posB(i, j)),
                                             At(labeled, posC(i, j)))]
                       /\ equiv_table' = union(equiv_table,
                                               At(labeled', posB(i, j)),
                                               At(labeled', posC(i, j)))
                       /\ merged' = merged \cup
                                       {<<At(labeled', posB(i, j)), At(labeled', posC(i, j))>>}
                       /\ UNCHANGED label
                  [] b = "B" ->
                       /\ labeled' = [labeled EXCEPT ![i][j] = At(labeled, posB(i, j))]
                       /\ UNCHANGED <<equiv_table, label, merged>>
                  [] b = "C" ->
                       /\ labeled' = [labeled EXCEPT ![i][j] = At(labeled, posC(i, j))]
                       /\ UNCHANGED <<equiv_table, label, merged>>
                  [] b = "new" ->
                       /\ labeled' = [labeled EXCEPT ![i][j] = label]
                       /\ equiv_table' = register(equiv_table, label)
                       /\ label' = label + 1
                       /\ UNCHANGED merged
           ELSE UNCHANGED <<labeled, equiv_table, label, merged>>
    /\ pos' = pos + 1
    /\ UNCHANGED <<image, n, m, lpc, dfs_out, bfs_out, labels, provisional, skelVars>>

\* The first loop is over: labels = set([0]) and the second loop starts.
SeqBeginSecondPass ==
    /\ lpc = "first"
    /\ pos = n * m
    /\ labels' = {0}
    /\ provisional' = labeled
    /\ pos' = 0
    /\ lpc' = "second"
    /\ UNCHANGED <<image, n, m, dfs_out, bfs_out, labeled, equiv_table, label, merged,
                   skelVars>>

\* One iteration of the second double loop of seq_label_alg.
SeqSecondPass ==
    /\ lpc = "second"
    /\ pos < n * m
    /\ LET c == CellAt(pos, m)
           f == find(equiv_table, At(labeled, c))
       IN  /\ equiv_table' = f.table
           /\ labeled' = [labeled EXCEPT ![c[1]][c[2]] = f.root]
           /\ labels' = labels \cup {f.root}
    /\ pos' = pos + 1
    /\ UNCHANGED <<image, n, m, lpc, dfs_out, bfs_out, label, merged, provisional,
                   skelVars>>

\* return labels, labeled
SeqReturn ==
    /\ lpc = "second"
    /\ pos = n * m
    /\ lpc' = "done"
    /\ UNCHANGED <<image, n, m, dfs_out, bfs_out, seqVars, skelVars>>

LabelNext ==
    \/ RegionGrowingAlg
    \/ RegionGrowBfs
    \/ SeqFirstPass
    \/ SeqBeginSecondPass
    \/ SeqSecondPass
    \/ SeqReturn

----------------------------------------------------------------------------
(* skeletonization *)

\* np.pad(image, (1,1), mode='constant', constant_values=(0,0))
pad(img, h, w) ==
    [i \in 0 .. h + 1 |-> [j \in 0 .. w + 1 |->
        IF 1 <= i /\ i <= h /\ 1 <= j /\ j <= w THEN img[i - 1][j - 1] ELSE 0]]

\* P2 .. P9, clockwise from north.
get_neighbors(img, i, j) ==
    << img[i - 1][j],     img[i - 1][j + 1], img[i][j + 1],
       img[i + 1][j + 1], img[i + 1][j],     img[i + 1][j - 1],
       img[i][j - 1],     img[i - 1][j - 1] >>

\* `neighbors + neighbors[0]` on an ndarray adds P2 to every element (it
\* does not append it), so the local n (here nn) has the 8 elements
\* neighbors[k] + P2 and zip(n, n[1:]) yields the 7 consecutive pairs.
get_transitions(neighbors) ==
    LET nn == [k \in 1 .. 8 |-> neighbors[k] + neighbors[1]]
    IN  Cardinality({k \in 1 .. 7 : nn[k] = 0 /\ nn[k + 1] = 1})

\* len(neighbors[neighbors == 1])
count_ones(neighbors) == Cardinality({k \in 1 .. 8 : neighbors[k] = 1})

\* The test of the first sub-pass.
test_first(neighbors) ==
    /\ 2 <= count_ones(neighbors) /\ count_ones(neighbors) <= 6
    /\ get_transitions(neighbors) = 1
    /\ neighbors[1] * neighbors[3] * neighbors[5] = 0
    /\ neighbors[3] * neighbors[5] * neighbors[7] = 0

\* The test of the second sub-pass.
test_second(neighbors) ==
    /\ 2 <= count_ones(neighbors) /\ count_ones(neighbors) <= 6
    /\ get_transitions(neighbors) = 1
    /\ neighbors[1] * neighbors[3] * neighbors[7] = 0
    /\ neighbors[1] * neighbors[5] * neighbors[7] = 0

\* The cells `for i in range(1, H): for j in range(1, W)` visits, in order.
scan_cells(h, w) ==
    IF h <= 1 \/ w <= 1 THEN << >>
    ELSE [k \in 1 .. (h - 1) * (w - 1) |->
             <<1 + ((k - 1) \div (w - 1)), 1 + ((k - 1) % (w - 1))>>]

\* The list a first sub-pass scan builds.
scan_first(img, h, w) ==
    SelectSeq(scan_cells(h, w),
              LAMBDA c : At(img, c) = 1 /\ test_first(get_neighbors(img, c[1], c[2])))

\* The list a second sub-pass scan builds.
scan_second(img, h, w) ==
    SelectSeq(scan_cells(h, w),
              LAMBDA c : At(img, c) = 1 /\ test_second(get_neighbors(img, c[1], c[2])))

\* for i, j in changed: image[i, j] = 0
clear(img, changed) ==
    [i \in DOMAIN img |-> [j \in DOMAIN img[i] |->
        IF \E k \in 1 .. Len(changed) : changed[k] = <<i, j>> THEN 0 ELSE img[i][j]]]

\* Faulty variant: `while changed_first and changed_second`.
loop_condition_and(cf, cs) == Len(cf) > 0 /\ Len(cs) > 0

\* while changed_first or changed_second
loop_condition(cf, cs) == Len(cf) > 0 \/ Len(cs) > 0

\* len(range(1, k)): the extent of the slice 1:k of an axis longer than k.
slice_len(k) == IF k >= 1 THEN k - 1 ELSE 0

\* Faulty variant: the slice starts at the padding, image[0:H-1, 0:W-1].
crop_from_border(img, h, w) ==
    [shape |-> <<slice_len(h), slice_len(w)>>,
     data  |-> [i \in 0 .. h - 2 |-> [j \in 0 .. w - 2 |-> img[i][j]]]]

\* image[1:H, 1:W]: the value returned, with its shape.
crop(img, h, w) ==
    [shape |-> <<slice_len(h), slice_len(w)>>,
     data  |-> [i \in 0 .. h - 2 |-> [j \in 0 .. w - 2 |-> img[i + 1][j + 1]]]]

\* changed_first = changed_second = [('flag', 'flag')]: a one-element list
\* whose element is no cell.  The element is written as the pair <<-1, -1>>
\* so that it can be compared with the cells later lists hold.
flag == << <<-1, -1>> >>

InitSkel ==
    /\ \E sh \in Shapes(MaxSkelCells) :
          /\ H = sh[1]
          /\ W = sh[2]
          /\ raster \in BinaryRasters(sh[1], sh[2])
    /\ padded = pad(raster, H, W)
    /\ changed_first = flag
    /\ changed_second = flag
    /\ spc = "while"
    /\ iter = 0
    /\ call = 1
    /\ out = [shape |-> <<0, 0>>, data |-> << >>]
    /\ IdleLabel

\* The loop condition holds: the body is entered.
LoopEnter ==
    /\ spc = "while"
    /\ loop_condition(changed_first, changed_second)
    /\ spc' = "scan1"
    /\ iter' = iter + 1
    /\ UNCHANGED <<raster, H, W, padded, changed_first, changed_second, call, out,
                   labelVars>>

\* changed_first = [] and the scan that fills it.
ScanFirst ==
    /\ spc = "scan1"
    /\ changed_first' = scan_first(padded, H, W)
    /\ spc' = "clear1"
    /\ UNCHANGED <<raster, H, W, padded, changed_second, iter, call, out, labelVars>>

ClearFirst ==
    /\ spc = "clear1"
    /\ padded' = clear(padded, changed_first)
    /\ spc' = "scan2"
    /\ UNCHANGED <<raster, H, W, changed_first, changed_second, iter, call, out,
                   labelVars>>

\* changed_second = [] and the scan that fills it.
ScanSecond ==
    /\ spc = "scan2"
    /\ changed_second' = scan_second(padded, H, W)
    /\ spc' = "clear2"
    /\ UNCHANGED <<raster, H, W, padded, changed_first, iter, call, out, labelVars>>

ClearSecond ==
    /\ spc = "clear2"
    /\ padded' = clear(padded, changed_second)
    /\ spc' = "while"
    /\ UNCHANGED <<raster, H, W, changed_first, changed_second, iter, call, out,
                   labelVars>>

\* The loop condition fails: return image[1:H, 1:W].
Return ==
    /\ spc = "while"
    /\ ~ loop_condition(changed_first, changed_second)
    /\ out' = crop(padded, H, W)
    /\ spc' = "done"
    /\ UNCHANGED <<raster, H, W, padded, changed_first, changed_second, iter, call,
                   labelVars>>

\* skeletonization is applied to the raster the first call returned.
SecondCall ==
    /\ spc = "done"
    /\ call = 1
    /\ raster' = out.data
    /\ H' = out.shape[1]
    /\ W' = out.shape[2]
    /\ padded' = pad(out.data, out.shape[1], out.shape[2])
    /\ changed_first' = flag
    /\ changed_second' = flag
    /\ spc' = "while"
    /\ iter' = 0
    /\ call' = 2
    /\ out' = [shape |-> <<0, 0>>, data |-> << >>]
    /\ UNCHANGED labelVars

SkelNext ==
    \/ LoopEnter
    \/ ScanFirst
    \/ ClearFirst
    \/ ScanSecond
    \/ ClearSecond
    \/ Return
    \/ SecondCall

----------------------------------------------------------------------------
(* Specifications *)

\* The three labelers on every binary raster of at most MaxLabelCells cells.
Spec == InitLabel /\ [][LabelNext]_vars

\* skeletonization on every binary raster of at most MaxSkelCells cells, and
\* on its result.
SpecSkel == InitSkel /\ [][SkelNext]_vars

\* The same; the interpreter keeps executing the call until it returns.
SpecSkelFair == SpecSkel /\ WF_vars(SkelNext)

----------------------------------------------------------------------------
(* Vocabulary of the properties *)

Abs(x) == IF x < 0 THEN -x ELSE x

\* The foreground cells of an h x w raster.
Fg(img, h, w) == {c \in Cells(h, w) : At(img, c) = 1}

\* Cells sharing an edge.
Adj4(c, d) == Abs(c[1] - d[1]) + Abs(c[2] - d[2]) = 1

\* Cells sharing an edge, or touching along the up-left/down-right diagonal.
Adj6(c, d) ==
    \/ Adj4(c, d)
    \/ d = <<c[1] + 1, c[2] + 1>>
    \/ c = <<d[1] + 1, d[2] + 1>>

\* Cells sharing an edge or a corner.
Adj8(c, d) == c # d /\ Abs(c[1] - d[1]) <= 1 /\ Abs(c[2] - d[2]) <= 1

Adjacent(k, c, d) ==
    CASE k = 4 -> Adj4(c, d)
      [] k = 6 -> Adj6(c, d)
      [] k = 8 -> Adj8(c, d)

RECURSIVE Grow(_, _, _)

\* The cells of fg reachable from the set S through k-adjacent cells of fg.
Grow(k, fg, S) ==
    LET T == S \cup {d \in fg : \E c \in S : Adjacent(k, c, d)}
    IN  IF T = S THEN S ELSE Grow(k, fg, T)

\* The k-connected component of the foreground cell c.
Component(k, fg, c) == Grow(k, fg, {c})

\* The number of k-connected components of an h x w raster.
NumComponents(k, img, h, w) ==
    Cardinality({Component(k, Fg(img, h, w), c) : c \in Fg(img, h, w)})

\* Two label maps group the cells of fg in the same way.
SamePartition(la, lb, fg) ==
    \A c, d \in fg : (At(la, c) = At(la, d)) <=> (At(lb, c) = At(lb, d))

\* A label map groups the cells of fg into their k-connected components.
PartitionIs(k, la, fg) ==
    \A c, d \in fg : (At(la, c) = At(la, d)) <=> (d \in Component(k, fg, c))

\* The three label maps returned for image.
LabelMaps == {dfs_out.labeled, bfs_out.labeled, labeled}

Min(S) == CHOOSE x \in S : \A y \in S : x <= y

RECURSIVE MergedWith(_)

\* The labels joined to those of S by the union calls made so far.
MergedWith(S) ==
    LET T == S \cup {p[1] : p \in {q \in merged : q[2] \in S}}
               \cup {p[2] : p \in {q \in merged : q[1] \in S}}
    IN  IF T = S THEN S ELSE MergedWith(T)

----------------------------------------------------------------------------
(* Labelers *)

\* C1: in each of the three returned label maps a cell has a value > 0
\* exactly when the raster is 1 at that cell.
C1_LabelsExactlyForeground ==
    lpc = "done" =>
        \A lm \in LabelMaps : \A c \in Cells(n, m) :
            (At(lm, c) > 0) <=> (At(image, c) = 1)

\* C1 witness: a finished run on a raster with background cells and at least
\* two separately labelled foreground regions.
C1_Witness ==
    /\ lpc = "done"
    /\ \E c \in Cells(n, m) : At(image, c) = 0
    /\ Cardinality(dfs_out.labels) >= 2
    /\ Cardinality(labels) >= 3

\* C2 as stated: the three labelers group the foreground cells identically.
C2_PartitionsIdentical ==
    lpc = "done" =>
        /\ SamePartition(dfs_out.labeled, bfs_out.labeled, Fg(image, n, m))
        /\ SamePartition(dfs_out.labeled, labeled, Fg(image, n, m))

\* C2 amended: the two flood fills group the foreground cells identically,
\* into the 4-connected components; seq_label_alg groups them into the
\* components of edge adjacency plus the up-left/down-right diagonal, so
\* every flood-fill component lies inside one seq_label_alg component.
C2_PartitionsAmended ==
    lpc = "done" =>
        /\ SamePartition(dfs_out.labeled, bfs_out.labeled, Fg(image, n, m))
        /\ PartitionIs(4, dfs_out.labeled, Fg(image, n, m))
        /\ PartitionIs(6, labeled, Fg(image, n, m))
        /\ \A c, d \in Fg(image, n, m) :
               At(dfs_out.labeled, c) = At(dfs_out.labeled, d)
                   => At(labeled, c) = At(labeled, d)

\* C2 witness: a finished run in which seq_label_alg joined two cells the
\* flood fills keep apart, and kept apart two other cells.
C2_Witness ==
    /\ lpc = "done"
    /\ \E c, d \in Fg(image, n, m) :
          /\ At(dfs_out.labeled, c) # At(dfs_out.labeled, d)
          /\ At(bfs_out.labeled, c) # At(bfs_out.labeled, d)
          /\ At(labeled, c) = At(labeled, d)
    /\ \E c, d \in Fg(image, n, m) : At(labeled, c) # At(labeled, d)

\* C3: in each of the three returned label maps, two foreground cells that
\* share an edge have the same value.
C3_EdgeNeighboursAgree ==
    lpc = "done" =>
        \A lm \in LabelMaps : \A c, d \in Fg(image, n, m) :
            Adj4(c, d) => At(lm, c) = At(lm, d)

\* C3 witness: a finished run in which some cell took the up-left branch
\* while its up and left neighbours carried different provisional labels.
C3_Witness ==
    /\ lpc = "done"
    /\ \E c \in Cells(n, m) :
          /\ At(image, c) = 1
          /\ is_labeled(provisional, n, m, posD(c[1], c[2]))
          /\ is_labeled(provisional, n, m, posB(c[1], c[2]))
          /\ is_labeled(provisional, n, m, posC(c[1], c[2]))
          /\ At(provisional, posB(c[1], c[2])) # At(provisional, posC(c[1], c[2]))

\* C4: at every point of seq_label_alg, find(a) of a registered label a is
\* the smallest label merged into a's class by the union calls so far; and
\* every positive value of the returned map is the smallest provisional
\* label of the cells that share that value.
C4_FindIsSmallestMerged ==
    /\ \A a \in DOMAIN equiv_table :
          find(equiv_table, a).root = Min(MergedWith({a}))
    /\ lpc = "done" =>
          \A c \in Fg(image, n, m) :
              At(labeled, c) =
                  Min({At(provisional, d) :
                          d \in {e \in Cells(n, m) : At(labeled, e) = At(labeled, c)}})

\* C4 witness: a finished run in which two union calls chained three
\* provisional labels into one class and a cell was relabelled.
C4_Witness ==
    /\ lpc = "done"
    /\ \E a \in DOMAIN equiv_table : Cardinality(MergedWith({a})) >= 3
    /\ \E c \in Fg(image, n, m) : At(labeled, c) # At(provisional, c)

----------------------------------------------------------------------------
(* skeletonization *)

\* C5 as stated: the returned raster has the shape of the argument.
C5_SameShape == spc = "done" => out.shape = <<H, W>>

\* C6 as stated: the returned raster has as many 8-connected foreground
\* components as the argument.
C6_ComponentCountKept ==
    spc = "done" =>
        NumComponents(8, out.data, out.shape[1], out.shape[2])
            = NumComponents(8, raster, H, W)

\* C7: every foreground cell of the returned raster is a foreground cell of
\* the argument at the same coordinates, and no step of a call turns a cell
\* of the working raster from 0 to 1.
C7_NoPixelAdded ==
    /\ [](spc = "done" =>
            \A c \in Fg(out.data, out.shape[1], out.shape[2]) :
                c \in Cells(H, W) /\ At(raster, c) = 1)
    /\ [][call' = call =>
            \A c \in Cells(H + 2, W + 2) : At(padded', c) = 1 => At(padded, c) = 1]_vars

\* C7 witness: a finished call that removed a pixel and returned a raster
\* that still has foreground.
C7_Witness ==
    /\ spc = "done"
    /\ Fg(out.data, out.shape[1], out.shape[2]) # {}
    /\ \E c \in Cells(out.shape[1], out.shape[2]) :
          At(raster, c) = 1 /\ At(out.data, c) = 0

\* C8 as stated: applying skeletonization to its own result returns that
\* result.
C8_Idempotent ==
    (call = 2 /\ spc = "done") => (out.shape = <<H, W>> /\ out.data = raster)

\* The number of 0 -> 1 steps in the cyclic sequence P2, P3, ..., P9, P2.
CyclicTransitions(neighbors) ==
    Cardinality({k \in 1 .. 8 : neighbors[k] = 0 /\ neighbors[(k % 8) + 1] = 1})

\* C9 as stated: the first sub-pass marks exactly the foreground pixels of
\* the raster that have 2 to 6 foreground neighbours, one cyclic 0 -> 1
\* transition, a background pixel among P2, P4, P6 and one among P4, P6, P8.
C9_FirstSubPassMarks ==
    spc = "clear1" =>
        {changed_first[k] : k \in 1 .. Len(changed_first)} =
            {c \in (1 .. H) \X (1 .. W) :
                /\ At(padded, c) = 1
                /\ LET nb == get_neighbors(padded, c[1], c[2])
                   IN  /\ count_ones(nb) \in 2 .. 6
                       /\ CyclicTransitions(nb) = 1
                       /\ 0 \in {nb[1], nb[3], nb[5]}
                       /\ 0 \in {nb[3], nb[5], nb[7]}}

\* C10: every call returns; it has entered the loop body at least once; and
\* from the loop test the body is entered again exactly when the last
\* iteration's sub-passes marked a pixel (or none has run yet).
C10_ThinningTerminates ==
    /\ \A k \in {1, 2} : (call = k) ~> (call = k /\ spc = "done")
    /\ [](spc = "done" => iter >= 1)
    /\ [][(spc = "while" /\ iter = 0) => spc' = "scan1"]_vars
    /\ [][(spc = "while" /\ iter >= 1) =>
            IF changed_first = << >> /\ changed_second = << >>
            THEN spc' = "done"
            ELSE spc' = "scan1"]_vars

\* C10 witness: a call that returned after two iterations that removed
\* pixels and a third that removed none.
C10_Witness == spc = "done" /\ iter >= 3

====
